---- MODULE Spec2Model ----
(***************************************************************************)
(* A model of the Synacor virtual machine of src/main.rs: the Machine      *)
(* (memory, registers, stack, program counter, input queue, trace sink),   *)
(* its fetch/decode/execute cycle, the operator meta-commands read by IN,   *)
(* the snapshot files they write and read, and the process that owns it;   *)
(* of the grid search of src/grid.rs, and of the memoised search of        *)
(* src/routine.rs.                                                         *)
(*                                                                         *)
(* Memory is the Vec<u16> of 32768 words, held sparsely: a function from   *)
(* the addresses of the non-zero cells to their words; every other cell    *)
(* reads 0.  Strings are sequences of code points, byte streams sequences  *)
(* of bytes.                                                               *)
(***************************************************************************)
EXTENDS Integers, Sequences, FiniteSets, TLC

VARIABLES
    program,    \* the words of challenge.bin (sparse, as memory)
    files,      \* the file system: file name -> content
    mem,        \* Machine.mem
    registers,  \* Machine.registers
    stack,      \* Machine.stack
    index,      \* Machine.index, the program counter
    stdin,      \* Machine.stdin, the queue of pending input bytes
    logger,     \* Machine.logger: <<>> for None, else the name of the open file
    instr,      \* the Instruction read_instruction returned in the latest cycle
    line,       \* the line read_stdin read in the latest cycle (<<>>: none read)
    status,     \* "running", or how the process ended
    error,      \* the message of the error or panic that ended it
    stdout,     \* the bytes written to standard output by this process
    nread,      \* lines read from the host's standard input so far
    origin,     \* per queued byte: TRUE when it stems from an operator line
    typed,      \* bytes of the forwarded lines the operator typed to this process
    delivered,  \* operator bytes IN has handed to the guest in this process
    saved,      \* file name -> the machine as it was when savestate wrote the file
    search,     \* traverse_grid: "start", or how it ended
    path,       \* traverse_grid: the path it printed
    orb,        \* an orb carried over GRID by the moves the search allows
    searches,   \* find_magic_value: candidate r7 -> its Search and its call stack
    asked       \* find_magic_value: the registers every candidate evaluates

machineVars ==
    <<program, files, mem, registers, stack, index, stdin, logger, instr,
      line, status, error, stdout, nread, origin, typed, delivered, saved>>

gridVars == <<search, path, orb>>

searchVars == <<searches, asked>>

vars == <<machineVars, gridVars, searchVars>>

(***************************************************************************)
(* Bounds of the model.                                                    *)
(***************************************************************************)
MaxLines == 3    \* lines the operator types, over all processes
MaxStack == 3    \* stack depth a PUSH or CALL may still grow

(***************************************************************************)
(* Words and bits.                                                         *)
(***************************************************************************)
MemLen == 32768

U16(n) == n % 65536

RECURSIVE BitAnd(_, _)
BitAnd(a, b) ==
    IF a = 0 \/ b = 0 THEN 0
    ELSE (IF a % 2 = 1 /\ b % 2 = 1 THEN 1 ELSE 0) + 2 * BitAnd(a \div 2, b \div 2)

RECURSIVE BitOr(_, _)
BitOr(a, b) ==
    IF a = 0 THEN b
    ELSE IF b = 0 THEN a
    ELSE (IF a % 2 = 1 \/ b % 2 = 1 THEN 1 ELSE 0) + 2 * BitOr(a \div 2, b \div 2)

\* !x on a u16: every one of the 16 bits flipped
BitNot16(a) == 65535 - a

(***************************************************************************)
(* Text.                                                                   *)
(***************************************************************************)
RECURSIVE Concat(_)
Concat(ss) == IF ss = <<>> THEN <<>> ELSE Head(ss) \o Concat(Tail(ss))

\* the UTF-8 encoding of one char
Utf8(c) ==
    IF c < 128 THEN <<c>>
    ELSE IF c < 2048 THEN <<192 + (c \div 64), 128 + (c % 64)>>
    ELSE <<224 + (c \div 4096), 128 + ((c \div 64) % 64), 128 + (c % 64)>>

\* the bytes of a String
Bytes(s) == Concat([i \in 1..Len(s) |-> Utf8(s[i])])

HexDigits == <<48, 49, 50, 51, 52, 53, 54, 55, 56, 57, 97, 98, 99, 100, 101, 102>>

RECURSIVE HexDigitsOf(_)
HexDigitsOf(n) ==
    IF n < 16 THEN <<HexDigits[n + 1]>>
    ELSE HexDigitsOf(n \div 16) \o <<HexDigits[(n % 16) + 1]>>

\* {:#x}
FmtHex(n) == <<48, 120>> \o HexDigitsOf(n)

RECURSIVE FmtDec(_)
FmtDec(n) == IF n < 10 THEN <<48 + n>> ELSE FmtDec(n \div 10) \o <<48 + (n % 10)>>

\* "Register {reg} = {val:#x}\n"
RegisterLine(reg, val) ==
    <<82, 101, 103, 105, 115, 116, 101, 114, 32>> \o FmtDec(reg)
        \o <<32, 61, 32>> \o FmtHex(val) \o <<10>>

StartsWith(s, p) == Len(s) >= Len(p) /\ SubSeq(s, 1, Len(p)) = p

IsWhite(c) == c \in {9, 10, 11, 12, 13, 32}

RECURSIVE TrimStart(_)
TrimStart(s) == IF s # <<>> /\ IsWhite(Head(s)) THEN TrimStart(Tail(s)) ELSE s

RECURSIVE TrimEnd(_)
TrimEnd(s) ==
    IF s # <<>> /\ IsWhite(s[Len(s)]) THEN TrimEnd(SubSeq(s, 1, Len(s) - 1)) ELSE s

Trim(s) == TrimEnd(TrimStart(s))

\* position of the first c in s, 0 when there is none
FirstIndex(s, c) ==
    IF \E i \in 1..Len(s) : s[i] = c
    THEN CHOOSE i \in 1..Len(s) : s[i] = c /\ \A j \in 1..(i - 1) : s[j] # c
    ELSE 0

\* str::split_once(' '): found is FALSE when the string holds no space
SplitOnce(s) ==
    LET i == FirstIndex(s, 32) IN
    IF i = 0 THEN [found |-> FALSE, before |-> s, after |-> <<>>]
    ELSE [found |-> TRUE, before |-> SubSeq(s, 1, i - 1),
          after |-> SubSeq(s, i + 1, Len(s))]

\* str::splitn(3, ' '): at most three pieces, the last one the remainder
SplitN3(s) ==
    LET a == SplitOnce(s) IN
    IF ~a.found THEN <<s>>
    ELSE LET b == SplitOnce(a.after) IN
         IF ~b.found THEN <<a.before, a.after>>
         ELSE <<a.before, b.before, b.after>>

IsDigit(c) == c \in 48..57

RECURSIVE DecValue(_)
DecValue(s) ==
    IF s = <<>> THEN 0 ELSE 10 * DecValue(SubSeq(s, 1, Len(s) - 1)) + (s[Len(s)] - 48)

\* str::parse::<usize>(): an optional '+', then one or more digits
ParseUsize(s) ==
    LET d == IF s # <<>> /\ Head(s) = 43 THEN Tail(s) ELSE s IN
    IF d # <<>> /\ \A i \in 1..Len(d) : IsDigit(d[i])
    THEN [ok |-> TRUE, v |-> DecValue(d)]
    ELSE [ok |-> FALSE, v |-> 0]

\* str::parse::<u16>(): as above, and the value must fit 16 bits
ParseU16(s) ==
    LET p == ParseUsize(s) IN
    IF p.ok /\ p.v <= 65535 THEN p ELSE [ok |-> FALSE, v |-> 0]

(***************************************************************************)
(* Memory.                                                                 *)
(***************************************************************************)
EmptyMem == [a \in {} |-> 0]

MemAt(m, a) == IF a \in DOMAIN m THEN m[a] ELSE 0

MemWrite(m, a, v) ==
    IF v = 0 THEN [x \in (DOMAIN m) \ {a} |-> m[x]]
    ELSE [x \in (DOMAIN m) \cup {a} |-> IF x = a THEN v ELSE m[x]]

\* the cells `cells` laid out from address `base` on
Segment(base, cells) ==
    [a \in {base + i - 1 : i \in {j \in 1..Len(cells) : cells[j] # 0}}
        |-> cells[a - base + 1]]

\* two images with disjoint addresses, as one
Overlay(m1, m2) ==
    [a \in (DOMAIN m1) \cup (DOMAIN m2) |-> IF a \in DOMAIN m1 THEN m1[a] ELSE m2[a]]

(***************************************************************************)
(* The operand model.  An operand is [ok, err, reg, n]: ok with the        *)
(* register index or the literal/address n, or the error's message.        *)
(***************************************************************************)
Operand(isReg, n) == [ok |-> TRUE, err |-> "", reg |-> isReg, n |-> n]

Weird(msg) == [ok |-> FALSE, err |-> msg, reg |-> FALSE, n |-> 0]

RegisterNew(w) ==
    IF w \in 32768..32775 THEN Operand(TRUE, w - 32768) ELSE Weird("got weird register")

ValueNew(w) ==
    IF w \in 0..32767 THEN Operand(FALSE, w)
    ELSE IF w \in 32768..32775 THEN Operand(TRUE, w - 32768)
    ELSE Weird("got weird value")

LiteralNew(w) ==
    IF w \in 0..32767 THEN Operand(FALSE, w) ELSE Weird("got weird literal")

LocationNew(w) ==
    IF w \in 0..32767 THEN Operand(FALSE, w)
    ELSE IF w \in 32768..32775 THEN Operand(TRUE, w - 32768)
    ELSE Weird("got weird location")

AddressNew(w) ==
    IF w \in 0..32767 THEN Operand(FALSE, w) ELSE Weird("got weird address")

EvalLocation(regs, l) == IF l.reg THEN AddressNew(regs[l.n]) ELSE l

\* the register's word taken as it is, Literal::new's check left out
EvalValue_Unchecked(regs, v) == IF v.reg THEN Operand(FALSE, regs[v.n]) ELSE v

EvalValue(regs, v) == IF v.reg THEN LiteralNew(regs[v.n]) ELSE v

(***************************************************************************)
(* The decoder.  Each opcode reads its operand cells left to right; the    *)
(* kind of a cell says how it is read:                                     *)
(*   "R" read_register                "V" read_value, then eval_value       *)
(*   "L" read_location (kept symbolic) "A" read_location, then eval_location*)
(***************************************************************************)
OpName ==
    <<"Halt", "Set", "Push", "Pop", "Eq", "Gt", "Jmp", "Jt", "Jf", "Add", "Mult",
      "Mod", "And", "Or", "Not", "Rmem", "Wmem", "Call", "Ret", "Out", "In", "Noop">>

Pattern ==
    << <<>>, <<"R", "V">>, <<"V">>, <<"L">>, <<"L", "V", "V">>, <<"L", "V", "V">>,
       <<"A">>, <<"V", "A">>, <<"V", "A">>, <<"L", "V", "V">>, <<"L", "V", "V">>,
       <<"L", "V", "V">>, <<"L", "V", "V">>, <<"L", "V", "V">>, <<"L", "V">>,
       <<"L", "A">>, <<"A", "V">>, <<"A">>, <<>>, <<"V">>, <<"L">>, <<>> >>

ReadOperand(kind, cell, regs) ==
    CASE kind = "R" -> RegisterNew(cell)
      [] kind = "V" -> LET v == ValueNew(cell) IN IF v.ok THEN EvalValue(regs, v) ELSE v
      [] kind = "L" -> LocationNew(cell)
      [] OTHER -> LET l == LocationNew(cell) IN IF l.ok THEN EvalLocation(regs, l) ELSE l

Decoded(st, err, op, args, idx) ==
    [st |-> st, err |-> err, op |-> op, args |-> args, index |-> idx]

\* the operand cells of one instruction, read from idx on; read_mem indexes
\* self.mem[self.index], which panics once index is past the last cell
RECURSIVE ReadOperands(_, _, _, _, _, _)
ReadOperands(m, regs, idx, op, kinds, args) ==
    IF kinds = <<>> THEN Decoded("ok", "", op, args, idx)
    ELSE IF idx >= MemLen THEN Decoded("panic", "index out of bounds", op, args, idx)
    ELSE LET o == ReadOperand(Head(kinds), MemAt(m, idx), regs) IN
         IF o.ok
         THEN ReadOperands(m, regs, idx + 1, op, Tail(kinds),
                           Append(args, [reg |-> o.reg, n |-> o.n]))
         ELSE Decoded("error", o.err, op, args, idx + 1)

\* the patch hook at the head of read_instruction
HookFires(regs, idx) == idx = 6027 /\ regs[7] = 1

\* the hook with the store into memory left out
HookMem_NoPatch(m, regs, idx) == m

HookMem(m, regs, idx) == IF HookFires(regs, idx) THEN MemWrite(m, 6027, 18) ELSE m

HookRegs(regs, idx) ==
    IF HookFires(regs, idx) THEN [regs EXCEPT ![0] = 6, ![7] = 25734] ELSE regs

\* println!("hacking...")
HookOut(out, regs, idx) ==
    IF HookFires(regs, idx)
    THEN out \o <<104, 97, 99, 107, 105, 110, 103, 46, 46, 46, 10>>
    ELSE out

\* read_instruction on memory m and registers regs (both as the hook left
\* them) at program counter idx
ReadInstruction(m, regs, idx) ==
    IF idx >= MemLen THEN Decoded("panic", "index out of bounds", "none", <<>>, idx)
    ELSE LET opcode == MemAt(m, idx) IN
         IF opcode > 21 THEN Decoded("error", "got weird opcode", "none", <<>>, idx + 1)
         ELSE ReadOperands(m, regs, idx + 1, OpName[opcode + 1], Pattern[opcode + 1], <<>>)

(***************************************************************************)
(* Arithmetic as the executor computes it.  An outcome is [panic, v]; an   *)
(* overflow panics in a build with overflow checks and wraps in one        *)
(* without, so it has both outcomes.                                       *)
(***************************************************************************)
Fits(v) == [panic |-> FALSE, v |-> v]

Panic == [panic |-> TRUE, v |-> 0]

\* a + b in u16
AddU16(a, b) == IF a + b <= 65535 THEN {Fits(a + b)} ELSE {Panic, Fits(U16(a + b))}

\* a as u32 * b as u32: the product of two u16 values is at most 65535 * 65535,
\* which 32 bits hold
MulU32(a, b) == {Fits(a * b)}

\* a - b in usize.  The wrapped difference, 2^64 - (b - a), is written
\* 2^31 - (b - a): a program counter far past memory either way
SubUsize(a, b) ==
    IF a >= b THEN {Fits(a - b)} ELSE {Panic, Fits(2147483647 - (b - a) + 1)}

\* the sum stored as it is, the reduction modulo 32768 forgotten
AddSum_Unreduced(a, b) == AddU16(a, b)

\* (left.0 + right.0) % 32768
AddSum(a, b) == {IF x.panic THEN x ELSE Fits(x.v % 32768) : x \in AddU16(a, b)}

\* ((left.0 as u32 * right.0 as u32) % 32768) as u16
MultProduct(a, b) == {IF x.panic THEN x ELSE Fits(U16(x.v % 32768)) : x \in MulU32(a, b)}

\* left.0 % right.0
ModRem(a, b) == IF b = 0 THEN {Panic} ELSE {Fits(a % b)}

\* left.0 & right.0
AndBits(a, b) == BitAnd(a, b)

\* left.0 | right.0
OrBits(a, b) == BitOr(a, b)

\* the complement stored as it is, the mask forgotten
NotBits_Unmasked(a) == BitNot16(a)

\* !operand.0 & 0x7fff
NotBits(a) == BitAnd(BitNot16(a), 32767)

\* write_to_location: the [mem, registers] after storing raw at loc
WriteToLocation(m, regs, loc, raw) ==
    IF loc.reg THEN [mem |-> m, registers |-> [regs EXCEPT ![loc.n] = raw]]
    ELSE [mem |-> MemWrite(m, loc.n, raw), registers |-> regs]

\* what a Location names holds
LocationHolds(m, regs, loc) == IF loc.reg THEN regs[loc.n] ELSE MemAt(m, loc.n)

(***************************************************************************)
(* Files and snapshots.  A file is [kind, json, log]: a JSON document      *)
(* (kind "json"), or the trace lines written through a logger (kind        *)
(* "log").                                                                 *)
(***************************************************************************)
NoJson == [mem |-> EmptyMem, registers |-> <<>>, stack |-> <<>>, index |-> 0, stdin |-> <<>>]

JsonFile(json) == [kind |-> "json", json |-> json, log |-> <<>>]

LogFile(lines) == [kind |-> "log", json |-> NoJson, log |-> lines]

FilePut(fs, name, content) ==
    [x \in (DOMAIN fs) \cup {name} |-> IF x = name THEN content ELSE fs[x]]

Forget(sv, name) == [x \in (DOMAIN sv) \ {name} |-> sv[x]]

\* a file can be created under any name but the empty one
Creatable(name) == name # <<>>

\* the document with the stack left out, as if it were skipped like the logger
Serialize_SkipsStack(m) ==
    [mem |-> m.mem,
     registers |-> [i \in 1..8 |-> m.registers[i - 1]],
     stack |-> <<>>,
     index |-> m.index,
     stdin |-> m.stdin]

\* serde_json::to_string(self): the fields in order, arrays as JSON arrays,
\* the logger skipped
Serialize(m) ==
    [mem |-> m.mem,
     registers |-> [i \in 1..8 |-> m.registers[i - 1]],
     stack |-> m.stack,
     index |-> m.index,
     stdin |-> m.stdin]

\* serde_json::from_str::<Machine>: the document must be JSON with eight
\* registers, u16 words and u8 bytes; the skipped logger is None
Deserialize(file) ==
    LET j == file.json IN
    IF /\ file.kind = "json"
       /\ Len(j.registers) = 8
       /\ \A a \in DOMAIN j.mem : j.mem[a] \in 0..65535
       /\ \A i \in 1..8 : j.registers[i] \in 0..65535
       /\ \A i \in 1..Len(j.stack) : j.stack[i] \in 0..65535
       /\ \A i \in 1..Len(j.stdin) : j.stdin[i] \in 0..255
    THEN [ok |-> TRUE,
          machine |-> [mem |-> j.mem,
                       registers |-> [r \in 0..7 |-> j.registers[r + 1]],
                       stack |-> j.stack,
                       index |-> j.index,
                       stdin |-> j.stdin,
                       logger |-> <<>>]]
    ELSE [ok |-> FALSE,
          machine |-> [mem |-> EmptyMem, registers |-> [r \in 0..7 |-> 0],
                       stack |-> <<>>, index |-> 0, stdin |-> <<>>, logger |-> <<>>]]

\* maybe_write_to_logger: one line, the opcode's address and the mnemonic,
\* through the open logger
MaybeWriteToLogger(fs, lg, addr, op) ==
    IF lg = <<>> THEN fs
    ELSE FilePut(fs, lg,
                 LogFile(IF lg \in DOMAIN fs /\ fs[lg].kind = "log"
                         THEN Append(fs[lg].log, <<addr, op>>)
                         ELSE <<<<addr, op>>>>))

(***************************************************************************)
(* The operator's lines and the meta-commands.                             *)
(***************************************************************************)
Savestate == <<115, 97, 118, 101, 115, 116, 97, 116, 101>>

Loadstate == <<108, 111, 97, 100, 115, 116, 97, 116, 101>>

Dumpregs == <<100, 117, 109, 112, 114, 101, 103, 115>>

Dumpreg == <<100, 117, 109, 112, 114, 101, 103>>

Setreg == <<115, 101, 116, 114, 101, 103>>

Logfile == <<108, 111, 103, 102, 105, 108, 101>>

Nolog == <<110, 111, 108, 111, 103>>

\* b"look\n"
Look == <<108, 111, 111, 107, 10>>

\* the branch of read_stdin's if-chain a line takes
CommandOf(l) ==
    IF StartsWith(l, Savestate) THEN "savestate"
    ELSE IF StartsWith(l, Loadstate) THEN "loadstate"
    ELSE IF StartsWith(l, Dumpregs) THEN "dumpregs"
    ELSE IF StartsWith(l, Dumpreg) THEN "dumpreg"
    ELSE IF StartsWith(l, Setreg) THEN "setreg"
    ELSE IF StartsWith(l, Logfile) THEN "logfile"
    ELSE IF StartsWith(l, Nolog) THEN "nolog"
    ELSE "line"

\* line.chars().filter_map(|ch| (ch != '\r').then_some(ch as u8))
QueuedBytes(l) ==
    LET kept == SelectSeq(l, LAMBDA ch : ch # 13) IN
    [i \in 1..Len(kept) |-> kept[i] % 256]

\* the bytes the operator typed, carriage returns left out
TypedBytes(l) == Bytes(SelectSeq(l, LAMBDA ch : ch # 13))

\* The lines an operator types: each ends with a newline.
\*   a  b<CR>  e-acute  savestate p  savestate  loadstate p  dumpregs
\*   dumpreg 7  dumpreg 8  setreg 1 40000  setreg 0 5  setreg 8 1
\*   logfile p  nolog  nologin
Lines ==
    { <<97, 10>>,
      <<98, 13, 10>>,
      <<233, 10>>,
      <<115, 97, 118, 101, 115, 116, 97, 116, 101, 32, 112, 10>>,
      <<115, 97, 118, 101, 115, 116, 97, 116, 101, 10>>,
      <<108, 111, 97, 100, 115, 116, 97, 116, 101, 32, 112, 10>>,
      <<100, 117, 109, 112, 114, 101, 103, 115, 10>>,
      <<100, 117, 109, 112, 114, 101, 103, 32, 55, 10>>,
      <<100, 117, 109, 112, 114, 101, 103, 32, 56, 10>>,
      <<115, 101, 116, 114, 101, 103, 32, 49, 32, 52, 48, 48, 48, 48, 10>>,
      <<115, 101, 116, 114, 101, 103, 32, 48, 32, 53, 10>>,
      <<115, 101, 116, 114, 101, 103, 32, 56, 32, 49, 10>>,
      <<108, 111, 103, 102, 105, 108, 101, 32, 112, 10>>,
      <<110, 111, 108, 111, 103, 10>>,
      <<110, 111, 108, 111, 103, 105, 110, 10>> }

(***************************************************************************)
(* Program images.                                                         *)
(***************************************************************************)
Vals == {0, 1, 200, 13107, 21845, 32767}

\* a source operand cell: a literal, or register 1
Srcs == Vals \cup {32769}

\* a destination operand cell: register 0, or address 100
Dsts == {32768, 100}

\* a jump target cell
Targets == {0, 9, 32767, 32769}

Instructions ==
    {<<op, d, a, b>> : op \in {4, 5, 9, 10, 11, 12, 13}, d \in Dsts, a \in Srcs, b \in Srcs}
    \cup {<<14, d, a>> : d \in Dsts, a \in Srcs}
    \cup {<<1, 32768, a>> : a \in Srcs}
    \cup {<<op, a>> : op \in {2, 19}, a \in Srcs}
    \cup {<<op, d>> : op \in {3, 20}, d \in Dsts}
    \cup {<<op, t>> : op \in {6, 17}, t \in Targets}
    \cup {<<op, a, t>> : op \in {7, 8}, a \in {0, 1, 32769}, t \in Targets}
    \cup {<<15, d, t>> : d \in Dsts, t \in {1, 32767, 32769}}
    \cup {<<16, t, a>> : t \in {100, 32769}, a \in {200, 32769}}
    \cup {<<0>>, <<18>>, <<21>>, <<22>>, <<1, 5, 5>>, <<2, 32776>>, <<3, 40000>>,
          <<9, 32776, 1, 1>>, <<6, 32776>>}

\* what runs before the instruction under study: nothing, SET r1 v, PUSH v,
\* or RMEM r1 1 (which loads its own operand cell, 32769, into register 1)
Prefixes ==
    {<<>>, <<2, 7>>, <<2, 32767>>, <<15, 32769, 1>>} \cup {<<1, 32769, v>> : v \in Vals}

Programs ==
    {Segment(0, p \o i) : p \in Prefixes, i \in Instructions}
    \cup { \* IN r0; OUT r0; JMP 0
           Segment(0, <<20, 32768, 19, 32768, 6, 0>>),
           \* CALL 3; HALT; RET
           Segment(0, <<17, 3, 0, 18>>),
           \* JMP 32767, and NOOP in the last cell
           Overlay(Segment(0, <<6, 32767>>), Segment(32767, <<21>>)),
           \* JMP 32766, and CALL 5 in the last two cells; POP r0 at 5
           Overlay(Segment(0, <<6, 32766, 0, 0, 0, 3, 32768>>), Segment(32766, <<17, 5>>)),
           \* JMP 32766, and CALL 5 in the last two cells; RET at 5
           Overlay(Segment(0, <<6, 32766, 0, 0, 0, 18>>), Segment(32766, <<17, 5>>)),
           \* SET r7 1; CALL 6027; HALT, and NOOP at 6027
           Overlay(Segment(0, <<1, 32775, 1, 17, 6027>>), Segment(6027, <<21>>)),
           \* IN r0; ADD r2 r1 1
           Segment(0, <<20, 32768, 9, 32770, 32769, 1>>),
           \* CALL 6027; HALT, and NOOP at 6027: register 7 is 0 there
           Overlay(Segment(0, <<17, 6027>>), Segment(6027, <<21>>)),
           \* PUSH 5; PUSH 200; POP 100; POP r0; HALT
           Segment(0, <<2, 5, 2, 200, 3, 100, 3, 32768>>),
           \* PUSH 5; SET r1 9; CALL r1; HALT, and RET at 9
           Segment(0, <<2, 5, 1, 32769, 9, 17, 32769, 0, 0, 18>>) }

(***************************************************************************)
(* The grid search, traverse_grid of src/grid.rs.  A pending operator is   *)
(* "Add", "Sub", "Mult" or "None"; a queue entry is the tuple              *)
(* (x, y, weight, op, path).  visited, the HashSet of (x, y, weight, op),  *)
(* is held as the weights seen per (op, y, x).                             *)
(***************************************************************************)
Num(n) == [kind |-> "Num", num |-> n]

Op(k) == [kind |-> k, num |-> 0]

GRID ==
    << <<Op("Mult"), Num(8), Op("Sub"), Num(1)>>,
       <<Num(4), Op("Mult"), Num(11), Op("Mult")>>,
       <<Op("Add"), Num(4), Op("Sub"), Num(18)>>,
       <<Num(22), Op("Sub"), Num(9), Op("Mult")>> >>

\* GRID[y][x]
Square(x, y) == GRID[y + 1][x + 1]

Entry(x, y, weight, op, p) == [x |-> x, y |-> y, weight |-> weight, op |-> op, path |-> p]

\* VecDeque::from([(0, 3, 0, Some(Square::Add), Vec::new())])
StartEntry == Entry(0, 3, 0, "Add", <<>>)

\* where a pending operator stands in visited
OpIndex(op) == CASE op = "Add" -> 1 [] op = "Sub" -> 2 [] op = "Mult" -> 3 [] OTHER -> 4

\* HashSet::new(): no weight seen for any (op, y, x)
NoneVisited ==
    LET row == <<{}, {}, {}, {}>>
        plane == <<row, row, row, row>>
    IN  <<plane, plane, plane, plane>>

Contains(v, x, y, weight, op) == weight \in v[OpIndex(op)][y + 1][x + 1]

Insert(v, x, y, weight, op) == [v EXCEPT ![OpIndex(op)][y + 1][x + 1] = @ \cup {weight}]

\* the arms of the match that panic: a number with no pending operator, an
\* operator with one pending
Mismatch(sq, op) == (sq.kind = "Num") = (op = "None")

\* i32 arithmetic that overflows (a panic in a test build)
Overflows(sq, weight, op) ==
    LET abs == IF weight < 0 THEN -weight ELSE weight IN
    CASE op = "Mult" -> abs > 2147483647 \div sq.num
      [] op \in {"Add", "Sub"} -> abs > 2147483647 - sq.num
      [] OTHER -> FALSE

\* new_weight
NewWeight(sq, weight, op) ==
    CASE op = "Add" -> weight + sq.num
      [] op = "Sub" -> weight - sq.num
      [] op = "Mult" -> weight * sq.num
      [] OTHER -> weight

\* a pending operator that entering a number square does not clear
NewOp_StaysPending(sq, op) == IF op = "None" THEN sq.kind ELSE op

\* new_op
NewOp(sq, op) == IF op = "None" THEN sq.kind ELSE "None"

\* x == 3 && y == 0
AtVault(x, y) == x = 3 /\ y = 0

\* the goal test with the weight ignored
Opens_AnyWeight(weight) == TRUE

\* new_weight == 30
Opens(weight) == weight = 30

\* the guards of the four moves
CanLeft(x, y) == x > 0 /\ y # 3

CanRight(x, y) == x < 3

CanUp(x, y) == y > 0

CanDown(x, y) == y < 3 /\ x # 0

\* the pushes without the move to the left
Moves_NoLeft(e, weight, op, v) ==
    (IF CanRight(e.x, e.y) /\ ~Contains(v, e.x + 1, e.y, weight, op)
     THEN <<Entry(e.x + 1, e.y, weight, op, Append(e.path, "right"))>> ELSE <<>>)
    \o (IF CanUp(e.x, e.y) /\ ~Contains(v, e.x, e.y - 1, weight, op)
        THEN <<Entry(e.x, e.y - 1, weight, op, Append(e.path, "up"))>> ELSE <<>>)
    \o (IF CanDown(e.x, e.y) /\ ~Contains(v, e.x, e.y + 1, weight, op)
        THEN <<Entry(e.x, e.y + 1, weight, op, Append(e.path, "down"))>> ELSE <<>>)

\* the entries one dequeued entry e pushes to the back of the queue, in the
\* order left, right, up, down
Moves(e, weight, op, v) ==
    (IF CanLeft(e.x, e.y) /\ ~Contains(v, e.x - 1, e.y, weight, op)
     THEN <<Entry(e.x - 1, e.y, weight, op, Append(e.path, "left"))>> ELSE <<>>)
    \o (IF CanRight(e.x, e.y) /\ ~Contains(v, e.x + 1, e.y, weight, op)
        THEN <<Entry(e.x + 1, e.y, weight, op, Append(e.path, "right"))>> ELSE <<>>)
    \o (IF CanUp(e.x, e.y) /\ ~Contains(v, e.x, e.y - 1, weight, op)
        THEN <<Entry(e.x, e.y - 1, weight, op, Append(e.path, "up"))>> ELSE <<>>)
    \o (IF CanDown(e.x, e.y) /\ ~Contains(v, e.x, e.y + 1, weight, op)
        THEN <<Entry(e.x, e.y + 1, weight, op, Append(e.path, "down"))>> ELSE <<>>)

\* the body of the while loop for the dequeued entry e.  acc is [visited,
\* queue, search, path]: queue holds what has been pushed since the pass began
Visit(acc, e) ==
    IF acc.search # "start" \/ Contains(acc.visited, e.x, e.y, e.weight, e.op) THEN acc
    ELSE LET v == Insert(acc.visited, e.x, e.y, e.weight, e.op)
             sq == Square(e.x, e.y)
             weight == NewWeight(sq, e.weight, e.op)
             op == NewOp(sq, e.op)
         IN  IF Mismatch(sq, e.op) \/ Overflows(sq, e.weight, e.op)
             THEN [acc EXCEPT !.visited = v,
                              !.search = IF Mismatch(sq, e.op) THEN "mismatch" ELSE "overflow"]
             ELSE IF AtVault(e.x, e.y)
             THEN IF Opens(weight)
                  THEN [acc EXCEPT !.visited = v, !.search = "found", !.path = e.path]
                  ELSE [acc EXCEPT !.visited = v]
             ELSE [acc EXCEPT !.visited = v, !.queue = @ \o Moves(e, weight, op, v)]

\* the loop over the entries q[lo..hi], front first, until it returns; what
\* the two halves of the range push is joined in the order it was pushed
RECURSIVE Dequeue(_, _, _, _)
Dequeue(acc, q, lo, hi) ==
    IF lo > hi THEN acc
    ELSE IF lo = hi THEN Visit(acc, q[lo])
    ELSE LET mid == (lo + hi) \div 2
             front == Dequeue([acc EXCEPT !.queue = <<>>], q, lo, mid)
             back == Dequeue([front EXCEPT !.queue = <<>>], q, mid + 1, hi)
         IN  IF front.search # "start" THEN front
             ELSE [back EXCEPT !.queue = acc.queue \o front.queue \o back.queue]

\* while let Some(..) = queue.pop_front(): the queue is first in, first out,
\* so the entries queued when a pass begins are all dequeued before any entry
\* they push; the loop ends when the queue is empty or the function returns
RECURSIVE While(_)
While(acc) ==
    IF acc.search # "start" THEN acc
    ELSE IF acc.queue = <<>> THEN [acc EXCEPT !.search = "exhausted"]
    ELSE While(Dequeue([acc EXCEPT !.queue = <<>>], acc.queue, 1, Len(acc.queue)))

\* an orb at the start: what the first queue entry describes
StartOrb == [x |-> 0, y |-> 3, weight |-> 0, op |-> "Add", steps |-> 0]

GridInit == search = "start" /\ path = <<>> /\ orb = StartOrb

(***************************************************************************)
(* The memoised search, Search::find of src/routine.rs.  Regs is a pair    *)
(* <<regs.0, regs.1>>.  The recursion is run with its call stack explicit: *)
(* a frame holds the regs it was called with and the place it has reached. *)
(***************************************************************************)
\* the base case without the mask
Zero_NoMask(y) == <<y + 1, y>>

\* ((regs.1 + 1) & 0x7fff, regs.1)
Zero(y) == <<(y + 1) % 32768, y>>

Frame(regs, at) == [regs |-> regs, at |-> at]

\* Search::new(r7) and the call find(regs) about to begin
NewSearch(regs) ==
    [memo |-> [k \in {} |-> <<0, 0>>], calls |-> <<Frame(regs, "enter")>>, ret |-> <<>>]

\* self.memo.insert(regs, ret)
Remember(memo, regs, ret) ==
    [k \in DOMAIN memo \cup {regs} |-> IF k = regs THEN ret ELSE memo[k]]

\* the next step of the innermost call of search s: a frame at "enter" has
\* just been called; one at "zero", "first" or "second" has its callee's
\* result in s.ret
Resume(s, r7) ==
    LET n == Len(s.calls)
        top == s.calls[n]
        regs == top.regs
        under == SubSeq(s.calls, 1, n - 1)
        calling(at, callee) ==
            [s EXCEPT !.calls = Append(Append(under, Frame(regs, at)),
                                       Frame(callee, "enter"))]
    IN  CASE top.at = "enter" /\ regs \in DOMAIN s.memo ->
               [s EXCEPT !.calls = under, !.ret = s.memo[regs]]
          [] top.at = "enter" /\ regs \notin DOMAIN s.memo /\ regs[1] = 0 ->
               [s EXCEPT !.calls = under, !.ret = Zero(regs[2]),
                         !.memo = Remember(@, regs, Zero(regs[2]))]
          [] top.at = "enter" /\ regs \notin DOMAIN s.memo /\ regs[1] # 0 /\ regs[2] = 0 ->
               calling("zero", <<regs[1] - 1, r7>>)
          [] top.at = "enter" /\ regs \notin DOMAIN s.memo /\ regs[1] # 0 /\ regs[2] # 0 ->
               calling("first", <<regs[1], regs[2] - 1>>)
          [] top.at = "first" ->
               calling("second", <<regs[1] - 1, s.ret[1]>>)
          [] OTHER ->
               [s EXCEPT !.calls = under, !.memo = Remember(@, regs, s.ret)]

\* no candidate is being evaluated
SearchIdle == searches = [r7 \in {} |-> 0] /\ asked = <<>>

(***************************************************************************)
(* The state after main has built the Machine: Machine::new(&program).     *)
(***************************************************************************)
NoInstr == [op |-> "none", args |-> <<>>]

Init ==
    /\ program \in Programs
    /\ files = [x \in {} |-> LogFile(<<>>)]
    /\ saved = [x \in {} |-> 0]
    /\ mem = program
    /\ registers = [r \in 0..7 |-> 0]
    /\ stack = <<>>
    /\ index = 0
    /\ stdin = <<>>
    /\ logger = <<>>
    /\ instr = NoInstr
    /\ line = <<>>
    /\ status = "running"
    /\ error = ""
    /\ stdout = <<>>
    /\ nread = 0
    /\ origin = <<>>
    /\ typed = <<>>
    /\ delivered = <<>>
    /\ GridInit
    /\ SearchIdle

(***************************************************************************)
(* One cycle of Machine::run: the patch hook, read_instruction, then the   *)
(* arm of the match that executes the instruction.                         *)
(***************************************************************************)
Hm == HookMem(mem, registers, index)

Hr == HookRegs(registers, index)

\* the trace line echoed on standard output while a sink is set
Ho_EchoesTrace ==
    HookOut(IF logger = <<>> THEN stdout ELSE stdout \o <<35>>, registers, index)

Ho == HookOut(stdout, registers, index)

\* what read_instruction returns in the current state
D == ReadInstruction(Hm, Hr, index)

Decodes(op) == status = "running" /\ D.st = "ok" /\ D.op = op

\* the end of a cycle that read no input
Exec(m, r, s, i, o, st, er) ==
    /\ mem' = m
    /\ registers' = r
    /\ stack' = s
    /\ index' = i
    /\ stdout' = o
    /\ status' = st
    /\ error' = er
    /\ instr' = [op |-> D.op, args |-> D.args]
    /\ line' = <<>>
    /\ files' = MaybeWriteToLogger(files, logger, index, D.op)
    /\ UNCHANGED <<program, stdin, logger, nread, origin, typed, delivered, saved>>
    /\ UNCHANGED <<gridVars, searchVars>>

\* the end of a cycle that stored raw through a Location
Store(loc, raw) ==
    LET w == WriteToLocation(Hm, Hr, loc, raw) IN
    Exec(w.mem, w.registers, stack, D.index, Ho, "running", "")

\* the end of a cycle whose arithmetic had outcome x
StoreOutcome(loc, x, msg) ==
    IF x.panic THEN Exec(Hm, Hr, stack, D.index, Ho, "panic", msg) ELSE Store(loc, x.v)

\* read_instruction returns an error, or read_mem indexes past memory
ReadInstructionFails ==
    /\ status = "running"
    /\ D.st # "ok"
    /\ mem' = Hm
    /\ registers' = Hr
    /\ index' = D.index
    /\ stdout' = Ho
    /\ status' = D.st
    /\ error' = D.err
    /\ instr' = NoInstr
    /\ line' = <<>>
    /\ UNCHANGED <<program, files, stack, stdin, logger, nread, origin, typed,
                   delivered, saved>>
    /\ UNCHANGED <<gridVars, searchVars>>

Halt == Decodes("Halt") /\ Exec(Hm, Hr, stack, D.index, Ho, "halted", "")

Set ==
    /\ Decodes("Set")
    /\ Exec(Hm, [Hr EXCEPT ![D.args[1].n] = D.args[2].n], stack, D.index, Ho, "running", "")

\* PUSH that advances but pushes nothing
Push_Drops ==
    /\ Decodes("Push")
    /\ Len(stack) < MaxStack
    /\ Exec(Hm, Hr, stack, D.index, Ho, "running", "")

Push ==
    /\ Decodes("Push")
    /\ Len(stack) < MaxStack
    /\ Exec(Hm, Hr, Append(stack, D.args[1].n), D.index, Ho, "running", "")

\* POP with the empty stack read as 0 (pop().unwrap_or_default()) instead of
\* the error
Pop_Unchecked ==
    /\ Decodes("Pop")
    /\ LET w == WriteToLocation(Hm, Hr, D.args[1],
                                IF stack = <<>> THEN 0 ELSE stack[Len(stack)])
       IN  Exec(w.mem, w.registers,
                IF stack = <<>> THEN stack ELSE SubSeq(stack, 1, Len(stack) - 1),
                D.index, Ho, "running", "")

\* pop_stack, then write_to_location
Pop ==
    /\ Decodes("Pop")
    /\ IF stack = <<>>
       THEN Exec(Hm, Hr, stack, D.index, Ho, "error", "pop stack")
       ELSE LET w == WriteToLocation(Hm, Hr, D.args[1], stack[Len(stack)]) IN
            Exec(w.mem, w.registers, SubSeq(stack, 1, Len(stack) - 1), D.index, Ho,
                 "running", "")

Eq == Decodes("Eq") /\ Store(D.args[1], IF D.args[2].n = D.args[3].n THEN 1 ELSE 0)

Gt == Decodes("Gt") /\ Store(D.args[1], IF D.args[2].n > D.args[3].n THEN 1 ELSE 0)

Jmp == Decodes("Jmp") /\ Exec(Hm, Hr, stack, D.args[1].n, Ho, "running", "")

Jt ==
    /\ Decodes("Jt")
    /\ Exec(Hm, Hr, stack, IF D.args[1].n # 0 THEN D.args[2].n ELSE D.index, Ho,
            "running", "")

Jf ==
    /\ Decodes("Jf")
    /\ Exec(Hm, Hr, stack, IF D.args[1].n = 0 THEN D.args[2].n ELSE D.index, Ho,
            "running", "")

Add ==
    /\ Decodes("Add")
    /\ \E x \in AddSum(D.args[2].n, D.args[3].n) :
          StoreOutcome(D.args[1], x, "attempt to add with overflow")

Mult ==
    /\ Decodes("Mult")
    /\ \E x \in MultProduct(D.args[2].n, D.args[3].n) :
          StoreOutcome(D.args[1], x, "attempt to multiply with overflow")

Mod ==
    /\ Decodes("Mod")
    /\ \E x \in ModRem(D.args[2].n, D.args[3].n) :
          StoreOutcome(D.args[1], x,
                       "attempt to calculate the remainder with a divisor of zero")

And == Decodes("And") /\ Store(D.args[1], AndBits(D.args[2].n, D.args[3].n))

Or == Decodes("Or") /\ Store(D.args[1], OrBits(D.args[2].n, D.args[3].n))

Not == Decodes("Not") /\ Store(D.args[1], NotBits(D.args[2].n))

Rmem == Decodes("Rmem") /\ Store(D.args[1], MemAt(Hm, D.args[2].n))

Wmem ==
    /\ Decodes("Wmem")
    /\ Exec(MemWrite(Hm, D.args[1].n, D.args[2].n), Hr, stack, D.index, Ho, "running", "")

\* CALL that pushes the address of its own operand cell
Call_PushesOperandCell ==
    /\ Decodes("Call")
    /\ Len(stack) < MaxStack
    /\ Exec(Hm, Hr, Append(stack, U16(D.index - 1)), D.args[1].n, Ho, "running", "")

\* self.stack.push(self.index as u16), then the jump
Call ==
    /\ Decodes("Call")
    /\ Len(stack) < MaxStack
    /\ Exec(Hm, Hr, Append(stack, U16(D.index)), D.args[1].n, Ho, "running", "")

\* pop_stack, then the jump to the popped word
Ret ==
    /\ Decodes("Ret")
    /\ IF stack = <<>>
       THEN Exec(Hm, Hr, stack, D.index, Ho, "error", "pop stack")
       ELSE Exec(Hm, Hr, SubSeq(stack, 1, Len(stack) - 1), stack[Len(stack)], Ho,
                 "running", "")

\* write_stdout: print!("{}", raw as u8 as char)
WriteStdout(out, raw) == out \o Utf8(raw % 256)

Out == Decodes("Out") /\ Exec(Hm, Hr, stack, D.index, WriteStdout(Ho, D.args[1].n), "running", "")

Noop == Decodes("Noop") /\ Exec(Hm, Hr, stack, D.index, Ho, "running", "")

(***************************************************************************)
(* IN: read_stdin, then write_to_location or redo_stdin.                   *)
(***************************************************************************)
\* the machine as read_stdin sees it: decoded, the queue found empty
\* the machine as it would be had IN's operand not been consumed yet
ThisMachine_BeforeOperand ==
    [mem |-> Hm, registers |-> Hr, stack |-> stack, index |-> D.index - 1,
     stdin |-> stdin, logger |-> logger]

ThisMachine ==
    [mem |-> Hm, registers |-> Hr, stack |-> stack, index |-> D.index,
     stdin |-> stdin, logger |-> logger]

\* the trace line of the IN itself is written before the line is read
Traced == MaybeWriteToLogger(files, logger, index, "In")

Flags(n, b) == [i \in 1..n |-> b]

\* the end of an IN cycle on machine m
InStep(m, fs, o, st, er, ln, org, ty, dl, sv) ==
    /\ mem' = m.mem
    /\ registers' = m.registers
    /\ stack' = m.stack
    /\ index' = m.index
    /\ stdin' = m.stdin
    /\ logger' = m.logger
    /\ files' = fs
    /\ stdout' = o
    /\ status' = st
    /\ error' = er
    /\ instr' = [op |-> D.op, args |-> D.args]
    /\ line' = ln
    /\ nread' = IF ln = <<>> THEN nread ELSE nread + 1
    /\ origin' = org
    /\ typed' = ty
    /\ delivered' = dl
    /\ saved' = sv
    /\ UNCHANGED program
    /\ UNCHANGED <<gridVars, searchVars>>

\* the machine after write_to_location(dst, raw)
Written(m, raw) ==
    LET w == WriteToLocation(m.mem, m.registers, D.args[1], raw) IN
    [m EXCEPT !.mem = w.mem, !.registers = w.registers]

\* read_stdin returns an error, or the command panics: run stops there
InFails(st, er, ln) ==
    InStep(ThisMachine, Traced, Ho, st, er, ln, origin, typed, delivered, saved)

\* redo_stdin on machine m, after a meta-command returned Ok(None)
RedoStdin(m, fs, o, ln, sv) ==
    \E x \in SubUsize(m.index, 2) :
       IF x.panic
       THEN InStep(m, fs, o, "panic", "attempt to subtract with overflow", ln,
                   Flags(Len(m.stdin), FALSE), typed, delivered, sv)
       ELSE InStep([m EXCEPT !.index = x.v, !.stdin = Look \o m.stdin], fs, o,
                   "running", "", ln, Flags(5 + Len(m.stdin), FALSE), typed,
                   delivered, sv)

\* read_stdin finds the queue empty and reads a line
ReadsLine == Decodes("In") /\ stdin = <<>> /\ nread < MaxLines

\* the lines that take branch cmd of read_stdin's if-chain
LinesOf(cmd) == {l \in Lines : CommandOf(l) = cmd}

\* the queue holds a byte: pop it and store it
InQueued ==
    /\ Decodes("In")
    /\ stdin # <<>>
    /\ InStep(Written([ThisMachine EXCEPT !.stdin = Tail(stdin)], Head(stdin)),
              Traced, Ho, "running", "", <<>>, Tail(origin), typed,
              IF Head(origin) THEN Append(delivered, Head(stdin)) ELSE delivered,
              saved)

\* read_line returns 0 bytes
InEof ==
    /\ Decodes("In")
    /\ stdin = <<>>
    /\ InFails("error", "stdin has reached EOF", <<>>)

\* an ordinary line: queue its bytes, then pop the first
InLine ==
    /\ ReadsLine
    /\ \E l \in LinesOf("line") :
          LET q == QueuedBytes(l) IN
          IF q = <<>>
          THEN InFails("error", "stdin has reached EOF", l)
          ELSE InStep(Written([ThisMachine EXCEPT !.stdin = Tail(q)], Head(q)),
                      Traced, Ho, "running", "", l, Flags(Len(q) - 1, TRUE),
                      typed \o TypedBytes(l), Append(delivered, Head(q)), saved)

InSavestate ==
    /\ ReadsLine
    /\ \E l \in LinesOf("savestate") :
          LET sp == SplitOnce(l)
              filename == Trim(sp.after)
          IN  IF ~sp.found THEN InFails("error", "get filename", l)
              ELSE IF ~Creatable(filename) THEN InFails("error", "save state", l)
              ELSE InStep(ThisMachine,
                          FilePut(Traced, filename, JsonFile(Serialize(ThisMachine))),
                          Ho, "exit", "", l, origin, typed, delivered,
                          FilePut(saved, filename, ThisMachine))

InLoadstate ==
    /\ ReadsLine
    /\ \E l \in LinesOf("loadstate") :
          LET sp == SplitOnce(l)
              filename == Trim(sp.after)
          IN  IF ~sp.found THEN InFails("error", "get filename", l)
              ELSE IF filename \notin DOMAIN Traced THEN InFails("error", "load state", l)
              ELSE LET d == Deserialize(Traced[filename]) IN
                   IF ~d.ok THEN InFails("error", "deserialize state", l)
                   ELSE RedoStdin(d.machine, Traced, Ho, l, saved)

InDumpregs ==
    /\ ReadsLine
    /\ \E l \in LinesOf("dumpregs") :
          RedoStdin(ThisMachine, Traced,
                    Ho \o Concat([r \in 1..8 |-> RegisterLine(r - 1, Hr[r - 1])]), l, saved)

InDumpreg ==
    /\ ReadsLine
    /\ \E l \in LinesOf("dumpreg") :
          LET sp == SplitOnce(l)
              reg == ParseUsize(Trim(sp.after))
          IN  IF ~sp.found THEN InFails("error", "get register", l)
              ELSE IF ~reg.ok THEN InFails("error", "parse register into usize", l)
              ELSE IF reg.v >= 8 THEN InFails("panic", "index out of bounds", l)
              ELSE RedoStdin(ThisMachine, Traced, Ho \o RegisterLine(reg.v, Hr[reg.v]),
                             l, saved)

InSetreg ==
    /\ ReadsLine
    /\ \E l \in LinesOf("setreg") :
          LET iter == SplitN3(Trim(l))
              reg == ParseUsize(iter[2])
              val == ParseU16(iter[3])
          IN  IF Len(iter) < 2 THEN InFails("error", "get register", l)
              ELSE IF ~reg.ok THEN InFails("error", "parse register into usize", l)
              ELSE IF Len(iter) < 3 THEN InFails("error", "get value", l)
              ELSE IF ~val.ok THEN InFails("error", "parse value into u16", l)
              ELSE IF reg.v >= 8 THEN InFails("panic", "index out of bounds", l)
              ELSE RedoStdin([ThisMachine EXCEPT !.registers[reg.v] = val.v], Traced,
                             Ho, l, saved)

\* File::create truncates the file; the old logger is dropped
InLogfile ==
    /\ ReadsLine
    /\ \E l \in LinesOf("logfile") :
          LET sp == SplitOnce(l)
              filename == Trim(sp.after)
          IN  IF ~sp.found THEN InFails("error", "get filename", l)
              ELSE IF ~Creatable(filename) THEN InFails("error", "create logfile", l)
              ELSE RedoStdin([ThisMachine EXCEPT !.logger = filename],
                             FilePut(Traced, filename, LogFile(<<>>)), Ho, l,
                             Forget(saved, filename))

InNolog ==
    /\ ReadsLine
    /\ \E l \in LinesOf("nolog") :
          RedoStdin([ThisMachine EXCEPT !.logger = <<>>], Traced, Ho, l, saved)

(***************************************************************************)
(* main: the operator starts the program again once a process has ended;   *)
(* the files stay.                                                         *)
(***************************************************************************)
Main ==
    /\ status # "running"
    /\ mem' = program
    /\ registers' = [r \in 0..7 |-> 0]
    /\ stack' = <<>>
    /\ index' = 0
    /\ stdin' = <<>>
    /\ logger' = <<>>
    /\ instr' = NoInstr
    /\ line' = <<>>
    /\ status' = "running"
    /\ error' = ""
    /\ stdout' = <<>>
    /\ origin' = <<>>
    /\ typed' = <<>>
    /\ delivered' = <<>>
    /\ UNCHANGED <<program, files, nread, saved>>
    /\ UNCHANGED <<gridVars, searchVars>>

Next ==
    \/ ReadInstructionFails
    \/ Halt \/ Set \/ Push \/ Pop \/ Eq \/ Gt \/ Jmp \/ Jt \/ Jf
    \/ Add \/ Mult \/ Mod \/ And \/ Or \/ Not \/ Rmem \/ Wmem \/ Call \/ Ret
    \/ Out \/ Noop
    \/ InQueued \/ InEof \/ InLine \/ InSavestate \/ InLoadstate \/ InDumpregs
    \/ InDumpreg \/ InSetreg \/ InLogfile \/ InNolog
    \/ Main

Spec == Init /\ [][Next]_vars

(***************************************************************************)
(* The test traverse_grid on its own: no machine runs.  After the search   *)
(* has printed its path an orb is carried from the start by the moves the  *)
(* search allows, for as many steps as the path has.                       *)
(***************************************************************************)
NoMachine ==
    /\ program = EmptyMem
    /\ files = [x \in {} |-> LogFile(<<>>)]
    /\ saved = [x \in {} |-> 0]
    /\ mem = EmptyMem
    /\ registers = [r \in 0..7 |-> 0]
    /\ stack = <<>>
    /\ index = 0
    /\ stdin = <<>>
    /\ logger = <<>>
    /\ instr = NoInstr
    /\ line = <<>>
    /\ status = "halted"
    /\ error = ""
    /\ stdout = <<>>
    /\ nread = 0
    /\ origin = <<>>
    /\ typed = <<>>
    /\ delivered = <<>>

\* the whole test function: the queue and the visited set are its locals
TraverseGrid ==
    /\ search = "start"
    /\ LET end == While([visited |-> NoneVisited, queue |-> <<StartEntry>>,
                         search |-> "start", path |-> <<>>])
       IN  search' = end.search /\ path' = end.path
    /\ UNCHANGED orb
    /\ UNCHANGED <<machineVars, searchVars>>

\* the orb enters the square it is on, then moves by (dx, dy)
Carried(dx, dy) ==
    LET sq == Square(orb.x, orb.y) IN
    /\ search = "found"
    /\ orb.steps < Len(path)
    /\ ~AtVault(orb.x, orb.y)
    /\ orb' = [x |-> orb.x + dx, y |-> orb.y + dy,
               weight |-> NewWeight(sq, orb.weight, orb.op), op |-> NewOp(sq, orb.op),
               steps |-> orb.steps + 1]
    /\ UNCHANGED <<search, path>>
    /\ UNCHANGED <<machineVars, searchVars>>

Left == CanLeft(orb.x, orb.y) /\ Carried(-1, 0)

Right == CanRight(orb.x, orb.y) /\ Carried(1, 0)

Up == CanUp(orb.x, orb.y) /\ Carried(0, -1)

Down == CanDown(orb.x, orb.y) /\ Carried(0, 1)

GridNext == TraverseGrid \/ Left \/ Right \/ Up \/ Down

\* the test starts with the search's locals as it builds them
GridStart == NoMachine /\ GridInit /\ SearchIdle

GridSpec == GridStart /\ [][GridNext]_vars

(***************************************************************************)
(* One iteration of run's loop as a function: the outcomes of a cycle of   *)
(* machine m (a record with the fields of Machine) in file system fs, with *)
(* out on standard output so far and l the line the host's standard input  *)
(* yields next (<<>>: its end).                                            *)
(***************************************************************************)
After(m, fs, out, st, er) ==
    [mem |-> m.mem, registers |-> m.registers, stack |-> m.stack, index |-> m.index,
     stdin |-> m.stdin, logger |-> m.logger, files |-> fs, stdout |-> out,
     status |-> st, error |-> er]

\* the In arm on Ok(None): redo_stdin
Redone(m, fs, out) ==
    {IF x.panic THEN After(m, fs, out, "panic", "attempt to subtract with overflow")
     ELSE After([m EXCEPT !.index = x.v, !.stdin = Look \o m.stdin], fs, out, "running", "")
       : x \in SubUsize(m.index, 2)}

\* the In arm: read_stdin, then write_to_location(dst, raw) or redo_stdin
ReadStdin(m, fs, out, dst, l) ==
    LET failed(st, er) == {After(m, fs, out, st, er)}
        stored(m2, raw) ==
            LET w == WriteToLocation(m2.mem, m2.registers, dst, raw) IN
            {After([m2 EXCEPT !.mem = w.mem, !.registers = w.registers], fs, out,
                   "running", "")}
        cmd == CommandOf(l)
        sp == SplitOnce(l)
        arg == Trim(sp.after)
        q == QueuedBytes(l)
        iter == SplitN3(Trim(l))
    IN  IF m.stdin # <<>> THEN stored([m EXCEPT !.stdin = Tail(m.stdin)], Head(m.stdin))
        ELSE IF l = <<>> THEN failed("error", "stdin has reached EOF")
        ELSE CASE cmd = "line" ->
                    IF q = <<>> THEN failed("error", "stdin has reached EOF")
                    ELSE stored([m EXCEPT !.stdin = Tail(q)], Head(q))
               [] cmd = "savestate" ->
                    IF ~sp.found THEN failed("error", "get filename")
                    ELSE IF ~Creatable(arg) THEN failed("error", "save state")
                    ELSE {After(m, FilePut(fs, arg, JsonFile(Serialize(m))), out, "exit", "")}
               [] cmd = "loadstate" ->
                    IF ~sp.found THEN failed("error", "get filename")
                    ELSE IF arg \notin DOMAIN fs THEN failed("error", "load state")
                    ELSE IF ~Deserialize(fs[arg]).ok THEN failed("error", "deserialize state")
                    ELSE Redone(Deserialize(fs[arg]).machine, fs, out)
               [] cmd = "dumpregs" ->
                    Redone(m, fs,
                           out \o Concat([r \in 1..8 |-> RegisterLine(r - 1, m.registers[r - 1])]))
               [] cmd = "dumpreg" ->
                    LET reg == ParseUsize(arg) IN
                    IF ~sp.found THEN failed("error", "get register")
                    ELSE IF ~reg.ok THEN failed("error", "parse register into usize")
                    ELSE IF reg.v >= 8 THEN failed("panic", "index out of bounds")
                    ELSE Redone(m, fs, out \o RegisterLine(reg.v, m.registers[reg.v]))
               [] cmd = "setreg" ->
                    LET reg == ParseUsize(iter[2])
                        val == ParseU16(iter[3])
                    IN  IF Len(iter) < 2 THEN failed("error", "get register")
                        ELSE IF ~reg.ok THEN failed("error", "parse register into usize")
                        ELSE IF Len(iter) < 3 THEN failed("error", "get value")
                        ELSE IF ~val.ok THEN failed("error", "parse value into u16")
                        ELSE IF reg.v >= 8 THEN failed("panic", "index out of bounds")
                        ELSE Redone([m EXCEPT !.registers[reg.v] = val.v], fs, out)
               [] cmd = "logfile" ->
                    IF ~sp.found THEN failed("error", "get filename")
                    ELSE IF ~Creatable(arg) THEN failed("error", "create logfile")
                    ELSE Redone([m EXCEPT !.logger = arg], FilePut(fs, arg, LogFile(<<>>)), out)
               [] OTHER -> Redone([m EXCEPT !.logger = <<>>], fs, out)

\* read_instruction, then the arm of run's match
RunOnce(m, fs, out, l) ==
    LET hm == HookMem(m.mem, m.registers, m.index)
        hr == HookRegs(m.registers, m.index)
        ho == HookOut(out, m.registers, m.index)
        d == ReadInstruction(hm, hr, m.index)
        h == [m EXCEPT !.mem = hm, !.registers = hr, !.index = d.index]
        traced == MaybeWriteToLogger(fs, m.logger, m.index, d.op)
        a(i) == d.args[i].n
        runs(m2) == {After(m2, traced, ho, "running", "")}
        stores(raw) ==
            LET w == WriteToLocation(hm, hr, d.args[1], raw) IN
            runs([h EXCEPT !.mem = w.mem, !.registers = w.registers])
        computes(xs, msg) ==
            UNION {IF x.panic THEN {After(h, traced, ho, "panic", msg)} ELSE stores(x.v)
                     : x \in xs}
        jumps(to) == runs([h EXCEPT !.index = to])
        top == h.stack[Len(h.stack)]
        rest == SubSeq(h.stack, 1, Len(h.stack) - 1)
    IN  IF d.st # "ok" THEN {After(h, fs, ho, d.st, d.err)}
        ELSE CASE d.op = "Halt" -> {After(h, traced, ho, "halted", "")}
               [] d.op = "Set" -> runs([h EXCEPT !.registers[a(1)] = a(2)])
               [] d.op = "Push" -> runs([h EXCEPT !.stack = Append(h.stack, a(1))])
               [] d.op = "Pop" ->
                    IF h.stack = <<>> THEN {After(h, traced, ho, "error", "pop stack")}
                    ELSE LET w == WriteToLocation(hm, hr, d.args[1], top) IN
                         runs([h EXCEPT !.mem = w.mem, !.registers = w.registers,
                                        !.stack = rest])
               [] d.op = "Eq" -> stores(IF a(2) = a(3) THEN 1 ELSE 0)
               [] d.op = "Gt" -> stores(IF a(2) > a(3) THEN 1 ELSE 0)
               [] d.op = "Jmp" -> jumps(a(1))
               [] d.op = "Jt" -> jumps(IF a(1) # 0 THEN a(2) ELSE d.index)
               [] d.op = "Jf" -> jumps(IF a(1) = 0 THEN a(2) ELSE d.index)
               [] d.op = "Add" -> computes(AddSum(a(2), a(3)), "attempt to add with overflow")
               [] d.op = "Mult" ->
                    computes(MultProduct(a(2), a(3)), "attempt to multiply with overflow")
               [] d.op = "Mod" ->
                    computes(ModRem(a(2), a(3)),
                             "attempt to calculate the remainder with a divisor of zero")
               [] d.op = "And" -> stores(AndBits(a(2), a(3)))
               [] d.op = "Or" -> stores(OrBits(a(2), a(3)))
               [] d.op = "Not" -> stores(NotBits(a(2)))
               [] d.op = "Rmem" -> stores(MemAt(hm, a(2)))
               [] d.op = "Wmem" -> runs([h EXCEPT !.mem = MemWrite(hm, a(1), a(2))])
               [] d.op = "Call" ->
                    runs([h EXCEPT !.stack = Append(h.stack, U16(d.index)), !.index = a(1)])
               [] d.op = "Ret" ->
                    IF h.stack = <<>> THEN {After(h, traced, ho, "error", "pop stack")}
                    ELSE runs([h EXCEPT !.stack = rest, !.index = top])
               [] d.op = "Out" -> {After(h, traced, WriteStdout(ho, a(1)), "running", "")}
               [] d.op = "In" -> ReadStdin(h, traced, ho, d.args[1], l)
               [] OTHER -> runs(h)

(***************************************************************************)
(* The claims.                                                             *)
(***************************************************************************)
InWordRange(v) == v \in 0..32767

\* C1: every value an executed instruction or a meta-command writes into a
\* register or a memory cell lies in 0..=32767: in every step of a running
\* machine, a register or cell whose content changes holds such a value after.
C1_WritesInRange ==
    [][status = "running" =>
         /\ \A r \in 0..7 : registers'[r] # registers[r] => InWordRange(registers'[r])
         /\ \A a \in DOMAIN mem' : mem'[a] # MemAt(mem, a) => InWordRange(mem'[a])]_vars

\* C2: whenever a cell is fetched the program counter lies in 0..=32767: a
\* running machine, whose next step fetches at the program counter, has it in
\* range, and read_mem never indexes past memory.
C2_FetchInRange ==
    /\ status = "running" => index \in 0..32767
    /\ ~(status = "panic" /\ instr = NoInstr /\ error = "index out of bounds")

\* C3: RET on an empty stack ends execution successfully, as HALT does: a
\* process that a RET ended has ended as halted.
C3_RetOnEmptyHalts == (instr.op = "Ret" /\ status # "running") => status = "halted"

\* C4: POP on an empty stack is a fatal error: the process ends with the error
\* "pop stack", nothing is written (memory and registers are as the fetch left
\* them) and the stack stays empty.
C4_PopOnEmptyIsFatal ==
    [][(Decodes("Pop") /\ stack = <<>>) =>
         /\ status' = "error"
         /\ error' = "pop stack"
         /\ stack' = <<>>
         /\ mem' = Hm
         /\ registers' = Hr
         /\ LocationHolds(mem', registers', D.args[1]) = LocationHolds(Hm, Hr, D.args[1])]_vars

\* C4's case: a POP has ended the process on an empty stack.
C4_Witness == instr.op = "Pop" /\ status = "error" /\ stack = <<>>

\* the file name a savestate or loadstate line gives
FileArg(l) == Trim(SplitOnce(l).after)

\* what a machine m, stopped in read_stdin, is after a meta-command that keeps
\* the state: the program counter rewound by two, look\n at the head of the queue
AfterMeta(m) ==
    [mem |-> m.mem, registers |-> m.registers, stack |-> m.stack,
     index |-> m.index - 2, stdin |-> Look \o m.stdin]

\* C5: snapshot round trip: once a loadstate of a file that savestate wrote
\* from machine M has been executed, memory, registers, stack, program counter
\* and input queue are those M would have after a state-preserving meta-command.
C5_SnapshotRoundTrip ==
    (status = "running" /\ CommandOf(line) = "loadstate") =>
        /\ FileArg(line) \in DOMAIN saved
        /\ [mem |-> mem, registers |-> registers, stack |-> stack, index |-> index,
            stdin |-> stdin] = AfterMeta(saved[FileArg(line)])

\* C5's case: a fresh process has loaded a snapshot saved after input had
\* changed register 0.
C5_Witness ==
    /\ status = "running"
    /\ CommandOf(line) = "loadstate"
    /\ nread = MaxLines
    /\ registers[0] = 10
    /\ stdout = <<>>

\* C6: when IN reads a line on an empty queue: a meta-command other than
\* savestate leaves look\n at the head of the queue and, loadstate apart, the
\* program counter back on the IN; dumpregs, dumpreg, logfile and nolog leave
\* memory, registers and stack alone; any other line is not rewound, injects
\* no look\n and stores its first byte in dst.
C6_MetaCommandSuspendsIn ==
    [][(ReadsLine /\ line' # <<>>) =>
         LET cmd == CommandOf(line') IN
         IF cmd = "line"
         THEN /\ index' = D.index
              /\ ~StartsWith(stdin', Look)
              /\ LocationHolds(mem', registers', D.args[1]) = Bytes(line')[1]
         ELSE IF cmd = "savestate" THEN TRUE
         ELSE /\ StartsWith(stdin', Look)
              /\ cmd # "loadstate" => index' = D.index - 2
              /\ cmd \in {"dumpregs", "dumpreg", "logfile", "nolog"} =>
                    mem' = Hm /\ registers' = Hr /\ stack' = stack]_vars

\* the queued bytes that stem from operator lines
RECURSIVE OperatorBytes(_, _)
OperatorBytes(q, org) ==
    IF q = <<>> THEN <<>>
    ELSE (IF Head(org) THEN <<Head(q)>> ELSE <<>>) \o OperatorBytes(Tail(q), Tail(org))

\* C7: the operator bytes IN delivers are exactly the bytes of the forwarded
\* lines, in order, none lost, duplicated or reordered: what was typed is what
\* was delivered followed by what is still queued.
C7_InputOrder == typed = delivered \o OperatorBytes(stdin, origin)

\* C8: a malformed meta-command line is not fatal: no meta-command line ends
\* the process with an error or a panic.
C8_MalformedCommandNonFatal ==
    ~(line # <<>> /\ CommandOf(line) # "line" /\ status \in {"error", "panic"})

\* C9: after ADD, MULT and MOD (b > 0) the destination holds (a+b) mod 32768,
\* (a*b) mod 32768 and a mod b, and the machine runs on: nothing overflowed.
C9_Arithmetic ==
    LET a == instr.args[2].n
        b == instr.args[3].n
        dst == LocationHolds(mem, registers, instr.args[1])
    IN  /\ instr.op = "Add" => status = "running" /\ dst = (a + b) % 32768
        /\ instr.op = "Mult" => status = "running" /\ dst = (a * b) % 32768
        /\ (instr.op = "Mod" /\ b > 0) => status = "running" /\ dst = a % b

\* C9's case: an ADD whose sum passes 15 bits has been executed.
C9_Witness ==
    /\ instr.op = "Add"
    /\ status = "running"
    /\ instr.args[2].n + instr.args[3].n > 32767

Bit(n, k) == (n \div (2 ^ k)) % 2

\* C10: after NOT the destination holds the 15-bit complement of a, after AND
\* and OR the bitwise and/or of a and b; bit 15 of what is stored is 0.
C10_Bitwise ==
    LET a == instr.args[2].n
        dst == LocationHolds(mem, registers, instr.args[1])
    IN  /\ instr.op = "Not" =>
              /\ \A k \in 0..14 : Bit(dst, k) = 1 - Bit(a, k)
              /\ Bit(dst, 15) = 0
        /\ instr.op = "And" =>
              /\ \A k \in 0..14 : Bit(dst, k) = Bit(a, k) * Bit(instr.args[3].n, k)
              /\ Bit(dst, 15) = 0
        /\ instr.op = "Or" =>
              /\ \A k \in 0..14 :
                    Bit(dst, k) = IF Bit(a, k) + Bit(instr.args[3].n, k) > 0 THEN 1 ELSE 0
              /\ Bit(dst, 15) = 0

\* C10's case: a NOT of a value with mixed bits has been executed.
C10_Witness == instr.op = "Not" /\ status = "running" /\ instr.args[2].n = 21845

\* C11: PUSH v then POP dst, nothing between them: PUSH appends v to the
\* stack and the machine runs on; the POP that follows at once stores v in dst
\* and leaves the stack as it was before the PUSH.
C11_PushThenPop ==
    [][/\ Decodes("Push") =>
             /\ status' = "running"
             /\ stack' = Append(stack, D.args[1].n)
       /\ (instr.op = "Push" /\ Decodes("Pop")) =>
             /\ status' = "running"
             /\ LocationHolds(mem', registers', D.args[1]) = instr.args[1].n
             /\ Append(stack', instr.args[1].n) = stack]_vars

\* C11's case: PUSH 200 then POP 100 have run over a stack that held 5.
C11_Witness ==
    /\ program = Segment(0, <<2, 5, 2, 200, 3, 100, 3, 32768>>)
    /\ index = 6
    /\ instr.op = "Pop"
    /\ MemAt(mem, 100) = 200
    /\ stack = <<5>>

\* C12: CALL at address c pushes c+2 and jumps to its target; the RET that
\* follows at once jumps to c+2 and leaves the stack as it was before the CALL.
C12_CallThenRet ==
    [][/\ Decodes("Call") =>
             /\ status' = "running"
             /\ stack' = Append(stack, index + 2)
             /\ index' = D.args[1].n
       /\ (instr.op = "Call" /\ Decodes("Ret")) =>
             /\ status' = "running"
             /\ \E c \in 0..32766 :
                   /\ MemAt(mem, c) = 17
                   /\ stack = Append(stack', c + 2)
                   /\ index' = c + 2]_vars

\* C12's case: CALL r1 at address 5 and the RET at 9 have run over a stack
\* that held 5, and the program counter is back on 7.
C12_Witness ==
    /\ program = Segment(0, <<2, 5, 1, 32769, 9, 17, 32769, 0, 0, 18>>)
    /\ instr.op = "Ret"
    /\ index = 7
    /\ stack = <<5>>

\* C13: OUT v appends exactly one byte, v mod 256, to standard output (after
\* whatever the fetch itself printed).
C13_OutOneByte ==
    [][Decodes("Out") => stdout' = Ho \o <<D.args[1].n % 256>>]_vars

\* the instructions whose execution writes no register and no memory cell
WritesNothing == {"Halt", "Push", "Jmp", "Jt", "Jf", "Call", "Ret", "Out", "Noop"}

\* C14: in a cycle that starts at 0x178B with register 7 equal to 1, cell
\* 0x178B becomes 18, register 0 becomes 6, register 7 becomes 0x6486, nothing
\* else is written and the instruction executed is RET; in every other cycle
\* the fetch writes nothing: when decoding fails, or the instruction is one
\* that writes nothing, memory and registers are after the cycle what they
\* were before it.
C14_PatchHook ==
    [][status = "running" =>
         IF index = 6027 /\ registers[7] = 1
         THEN /\ instr'.op = "Ret"
              /\ mem' = MemWrite(mem, 6027, 18)
              /\ MemAt(mem', 6027) = 18
              /\ registers' = [registers EXCEPT ![0] = 6, ![7] = 25734]
         ELSE (instr' = NoInstr \/ instr'.op \in WritesNothing) =>
                  mem' = mem /\ registers' = registers]_vars

\* C14's case: the hook has fired on the NOOP at 0x178B and the RET it put
\* there has returned to the caller.
C14_Witness ==
    /\ instr.op = "Ret"
    /\ status = "running"
    /\ index = 5
    /\ MemAt(program, 6027) = 21
    /\ MemAt(mem, 6027) = 18
    /\ registers[0] = 6
    /\ registers[7] = 25734

\* the operand cells of the instruction at the program counter are in memory
OperandsInMemory(opcode) == index + Len(Pattern[opcode + 1]) < MemLen

\* an operand cell is in 0..=32775; a cell out of it is a decode error
CellInRange(cell) == cell \in 0..32775

\* ... and of the kind the opcode table requires: SET's first operand is a
\* register, every other operand a literal, an address or a register
CellOfKind(kind, cell) == CellInRange(cell) /\ (kind = "R" => cell \in 32768..32775)

\* C15: decoding is total.  An opcode cell in 0..=21 whose operand cells are
\* all in 0..=32775 and of the required kind yields an instruction, and the
\* program counter has advanced by 1 + arity when it is executed; an opcode
\* cell above 21, or an operand cell above 32775, ends the process with a
\* decode error, registers, memory and stack untouched.
C15_DecodeTotal ==
    [][(status = "running" /\ index < MemLen) =>
         LET opcode == MemAt(Hm, index)
             kinds == Pattern[opcode + 1]
             cell(i) == MemAt(Hm, index + i)
         IN  IF opcode > 21
             THEN /\ status' = "error" /\ error' = "got weird opcode"
                  /\ mem' = mem /\ registers' = registers /\ stack' = stack
             ELSE /\ (OperandsInMemory(opcode)
                         /\ \A i \in 1..Len(kinds) : CellOfKind(kinds[i], cell(i))) =>
                        /\ instr' # NoInstr
                        /\ instr'.op = OpName[opcode + 1]
                        /\ D.st = "ok"
                        /\ D.index = index + 1 + Len(kinds)
                  /\ (OperandsInMemory(opcode)
                         /\ \E i \in 1..Len(kinds) : ~CellInRange(cell(i))) =>
                        /\ status' = "error"
                        /\ mem' = mem /\ registers' = registers /\ stack' = stack]_vars

\* C19: an instruction that reads a register whose word exceeds 0x7FFF, as a
\* Value operand or as a jump, call, RMEM or WMEM target, ends the process with
\* an error at decode: no instruction is executed, no register, memory cell or
\* stack entry changes, nothing is printed and the program counter is not
\* redirected.
C19_RegisterOutOfRangeIsFatal ==
    [][(status = "running" /\ index < MemLen /\ MemAt(mem, index) <= 21) =>
         LET opcode == MemAt(mem, index)
             kinds == Pattern[opcode + 1]
             cell(i) == MemAt(mem, index + i)
         IN  (/\ OperandsInMemory(opcode)
              /\ \E i \in 1..Len(kinds) :
                    /\ kinds[i] \in {"V", "A"}
                    /\ cell(i) \in 32768..32775
                    /\ registers[cell(i) - 32768] > 32767) =>
                 /\ status' = "error"
                 /\ instr' = NoInstr
                 /\ mem' = mem /\ registers' = registers /\ stack' = stack
                 /\ stdout' = stdout
                 /\ index' \in (index + 1)..(index + 1 + Len(kinds))]_vars

\* C19's case: a jump through register 1, which holds 32769, has ended the
\* process.
C19_Witness ==
    /\ status = "error"
    /\ error = "got weird address"
    /\ registers[1] = 32769
    /\ MemAt(mem, index - 2) \in {6, 17}
    /\ MemAt(mem, index - 1) = 32769

\* the leading whitespace-delimited token of a line
RECURSIVE UpToWhite(_)
UpToWhite(s) ==
    IF s = <<>> \/ IsWhite(Head(s)) THEN <<>> ELSE <<Head(s)>> \o UpToWhite(Tail(s))

Token(l) == UpToWhite(TrimStart(l))

MetaTokens == {Savestate, Loadstate, Dumpregs, Dumpreg, Setreg, Logfile, Nolog}

\* C20: a line read by IN is consumed as a meta-command (none of its bytes
\* is handed to the guest or queued for it) exactly when its leading token is
\* one of the seven command names; every other line is forwarded, its first
\* byte handed to the guest in that cycle; the token dumpregs prints all
\* eight registers.
C20_MetaCommandToken ==
    [][(ReadsLine /\ line' # <<>>) =>
         LET consumed == delivered' = delivered /\ \A i \in 1..Len(origin') : ~origin'[i]
         IN  /\ Token(line') \in MetaTokens <=> consumed
             /\ Token(line') \notin MetaTokens =>
                    /\ Len(delivered') = Len(delivered) + 1
                    /\ typed' = typed \o TypedBytes(line')
             /\ Token(line') = Dumpregs =>
                    stdout' = Ho \o Concat([r \in 1..8 |-> RegisterLine(r - 1, Hr[r - 1])])]_vars

\* a file system with every trace file emptied
NoLogs(fs) == [x \in DOMAIN fs |-> IF fs[x].kind = "log" THEN LogFile(<<>>) ELSE fs[x]]

\* what the guest and the operator can observe of a machine and its world
Semantics(o) ==
    [mem |-> o.mem, registers |-> o.registers, stack |-> o.stack, index |-> o.index,
     stdin |-> o.stdin, stdout |-> o.stdout, status |-> o.status, error |-> o.error,
     files |-> NoLogs(o.files)]

\* the current machine with the trace sink taken away
Untraced ==
    [mem |-> mem, registers |-> registers, stack |-> stack, index |-> index,
     stdin |-> stdin, logger |-> <<>>]

Candidates == {1, 2}

\* the registers asked for
AskedRegs == {<<0, 32767>>, <<1, 2>>, <<2, 1>>, <<2, 2>>, <<3, 0>>}

SearchStart ==
    /\ NoMachine
    /\ GridInit
    /\ asked \in AskedRegs
    /\ searches = [r7 \in Candidates |-> NewSearch(asked)]

\* one step of candidate r7's evaluation
Find(r7) ==
    /\ searches[r7].calls # <<>>
    /\ searches' = [searches EXCEPT ![r7] = Resume(@, r7)]
    /\ UNCHANGED asked
    /\ UNCHANGED <<machineVars, gridVars>>

SearchNext == \E r7 \in Candidates : Find(r7)

SearchSpec ==
    SearchStart /\ [][SearchNext]_vars /\ \A r7 \in Candidates : WF_vars(Find(r7))

\* where a path of direction labels takes an orb from entry e, each square
\* entered with signed arithmetic and no reduction
RECURSIVE Replay(_, _)
Replay(e, p) ==
    LET sq == Square(e.x, e.y)
        dx == CASE Head(p) = "left" -> -1 [] Head(p) = "right" -> 1 [] OTHER -> 0
        dy == CASE Head(p) = "up" -> -1 [] Head(p) = "down" -> 1 [] OTHER -> 0
        acc == CASE e.op = "Add" -> e.weight + sq.num
                 [] e.op = "Sub" -> e.weight - sq.num
                 [] e.op = "Mult" -> e.weight * sq.num
                 [] OTHER -> e.weight
    IN  IF p = <<>> THEN [x |-> e.x, y |-> e.y, weight |-> acc]
        ELSE Replay([x |-> e.x + dx, y |-> e.y + dy, weight |-> acc,
                     op |-> IF e.op = "None" THEN sq.kind ELSE "None"], Tail(p))

\* C16: the grid search started at (0, 3) with accumulator 0 and pending Add
\* ends by printing a path, never by emptying its queue (nor by a panic), and
\* the path, replayed on GRID from the start, ends on (3, 0) with accumulator 30.
C16_GridSearchFindsPath ==
    /\ search \in {"start", "found"}
    /\ search = "found" =>
          /\ \A i \in 1..Len(path) : path[i] \in {"left", "right", "up", "down"}
          /\ Replay(StartOrb, path) = [x |-> 3, y |-> 0, weight |-> 30]

\* C16's case: the search has printed a path of twelve moves.
C16_Witness == search = "found" /\ Len(path) = 12

\* C21: the search never ends in a structural-error arm of its match, and every
\* orb the allowed moves produce, within as many steps as the search took,
\* stands on a number square with an operator pending or on an operator
\* square with none pending.
C21_SquareAndOperatorAgree ==
    /\ search # "mismatch"
    /\ LET sq == Square(orb.x, orb.y)
       IN  (sq.kind = "Num") = (orb.op \in {"Add", "Sub", "Mult"})

\* C21's case: after moves, an orb on a number square with an operator
\* pending, here the vault's square with Mult pending.
C21_Witness ==
    /\ search = "found"
    /\ orb.steps = Len(path)
    /\ orb.x = 3 /\ orb.y = 0
    /\ Square(orb.x, orb.y).kind = "Num"
    /\ orb.op = "Mult"

\* the accumulator an orb has once it has entered the square it stands on
Entered == NewWeight(Square(orb.x, orb.y), orb.weight, orb.op)

\* C22: no sequence of allowed moves with fewer steps than the printed path
\* brings an orb from the start into the vault square with accumulator 30.
C22_PathIsShortest ==
    (search = "found" /\ AtVault(orb.x, orb.y) /\ Entered = 30) => orb.steps >= Len(path)

\* C22's case: an orb taken into the vault with accumulator 30 in exactly as
\* many steps, twelve, as the printed path.
C22_Witness ==
    /\ search = "found"
    /\ AtVault(orb.x, orb.y)
    /\ Entered = 30
    /\ orb.steps = Len(path)
    /\ orb.steps = 12

\* C23: whenever a savestate line is processed the input queue is empty and the
\* program counter is two cells past an IN opcode, so a snapshot it writes has
\* an empty stdin and an index of at least 2; and a loadstate that succeeds
\* leaves the program counter on an IN opcode with exactly look\n queued.
C23_SavestateAtIn ==
    [][(ReadsLine /\ line' # <<>>) =>
         LET cmd == CommandOf(line')
             m == ThisMachine
             f == FileArg(line')
         IN  /\ cmd = "savestate" =>
                   /\ m.stdin = <<>>
                   /\ m.index >= 2
                   /\ MemAt(m.mem, m.index - 2) = 20
                   /\ status' = "exit" =>
                         /\ f \in DOMAIN files'
                         /\ files'[f].kind = "json"
                         /\ files'[f].json.stdin = <<>>
                         /\ files'[f].json.index >= 2
                         /\ MemAt(files'[f].json.mem, files'[f].json.index - 2) = 20
             /\ (cmd = "loadstate" /\ status' = "running") =>
                   /\ stdin' = <<108, 111, 111, 107, 10>>
                   /\ MemAt(mem', index') = 20
                   /\ index' = files[f].json.index - 2]_vars

\* C23's case: a loadstate has put the machine back on the IN at which the
\* snapshot was saved, two cells before the saved program counter, with
\* look\n queued.
C23_Witness ==
    /\ status = "running"
    /\ CommandOf(line) = "loadstate"
    /\ FileArg(line) \in DOMAIN saved
    /\ saved[FileArg(line)].stdin = <<>>
    /\ saved[FileArg(line)].index = index + 2
    /\ MemAt(mem, index) = 20
    /\ stdin = Look

\* the recurrence: f(0,y) = ((y+1) mod 32768, y), f(x,0) = f(x-1, r7),
\* f(x,y) = f(x-1, f(x,y-1).first)
RECURSIVE F(_, _, _)
F(r7, x, y) ==
    IF x = 0 THEN <<(y + 1) % 32768, y>>
    ELSE IF y = 0 THEN F(r7, x - 1, r7)
    ELSE F(r7, x - 1, F(r7, x, y - 1)[1])

\* every memo entry of candidate r7 is a value of the recurrence, every
\* result handed back to a waiting call is the recurrence's value for the
\* callee, and the finished evaluation has returned f(asked)
Sound(r7) ==
    LET s == searches[r7]
        n == Len(s.calls)
        regs == s.calls[n].regs
        at == s.calls[n].at
    IN  /\ \A k \in DOMAIN s.memo : s.memo[k] = F(r7, k[1], k[2])
        /\ n = 0 => s.ret = F(r7, asked[1], asked[2])
        /\ (n > 0 /\ at = "zero") => s.ret = F(r7, regs[1] - 1, r7)
        /\ (n > 0 /\ at = "first") => s.ret = F(r7, regs[1], regs[2] - 1)
        /\ (n > 0 /\ at = "second") => s.ret = F(r7, regs[1], regs[2])

\* C24: for each candidate r7, at every point of the evaluation the memo holds
\* only values of the recurrence f and every call that has returned, whatever
\* was cached when it began, returned f of its registers; the evaluation of
\* each candidate ends, whatever the other candidates do.
C24_MemoIsTheRecurrence ==
    /\ [](\A r7 \in Candidates : Sound(r7))
    /\ \A r7 \in Candidates : <>[](searches[r7].calls = <<>>)

\* C24's case: both candidates have finished find((2, 2)) with different
\* results, each having answered calls from its memo.
C24_Witness ==
    /\ asked = <<2, 2>>
    /\ \A r7 \in Candidates : searches[r7].calls = <<>>
    /\ searches[1].ret[1] = 7
    /\ searches[2].ret[1] = 11
    /\ <<1, 3>> \in DOMAIN searches[1].memo

====
